---- MODULE Spec2Model ----
(***************************************************************************)
(* Model of the conversation-state coordinator of the WhatsApp assistant   *)
(* (src/whatsapp.py): the webhook, the background dispatcher               *)
(* process_message_background_optimized, the draft approval protocol, the  *)
(* pending place query and the delayed-response replay.                    *)
(*                                                                         *)
(* One step of the model is one run of a coroutine between two points at   *)
(* which it really yields to the event loop (an await on a network call    *)
(* or on an executor).  send_whatsapp_message and transcribe_audio are     *)
(* "async def" but call blocking clients and never yield, so they are part *)
(* of the step that calls them.                                            *)
(*                                                                         *)
(* Besides the three dicts of the program the state holds, per background  *)
(* task, its locals and a log of what it did (branch taken, connector      *)
(* calls, handlers entered, the outbound send and how it ended).  The log  *)
(* of a task that has returned stays for one state.  hook is the webhook   *)
(* call made in the last step; since_hook notes, per sender, the kind of   *)
(* its last webhook call and the replies stored for it since.              *)
(*                                                                         *)
(* Spec is the webhook and the dispatcher from an empty store;             *)
(* SpecDraftPending and SpecProbe start from states the program reaches    *)
(* (a draft pending; a first message already handed to the dispatcher),    *)
(* FairSpec adds the steps the timeouts guarantee, and SpecContacts is the *)
(* add_contact handler with the contact sheet and the cache of its rows.   *)
(*                                                                         *)
(* Reply texts are modelled by their kind (<<"draft">>, <<"what area">>),  *)
(* message bodies and extracted fields by sample strings.  A send without  *)
(* Twilio credentials returns at once and stores nothing, like a send that *)
(* succeeds; it is not drawn as an outcome of its own.                     *)
(***************************************************************************)
EXTENDS Integers, Sequences, FiniteSets, TLC

\* Number of background tasks (messages handed to the dispatcher) in a run.
MaxTasks == 2

-----------------------------------------------------------------------------
(* Text: Python str is modelled by TLA+ strings; the string operations the  *)
(* code uses are computed character by character.                          *)

\* str.lower() on one character
LowerChar(c) ==
    CASE c = "A" -> "a" [] c = "B" -> "b" [] c = "C" -> "c" [] c = "D" -> "d"
      [] c = "E" -> "e" [] c = "F" -> "f" [] c = "G" -> "g" [] c = "H" -> "h"
      [] c = "I" -> "i" [] c = "J" -> "j" [] c = "K" -> "k" [] c = "L" -> "l"
      [] c = "M" -> "m" [] c = "N" -> "n" [] c = "O" -> "o" [] c = "P" -> "p"
      [] c = "Q" -> "q" [] c = "R" -> "r" [] c = "S" -> "s" [] c = "T" -> "t"
      [] c = "U" -> "u" [] c = "V" -> "v" [] c = "W" -> "w" [] c = "X" -> "x"
      [] c = "Y" -> "y" [] c = "Z" -> "z"
      [] OTHER -> c

\* str.lower()
RECURSIVE Lower(_)
Lower(s) == IF s = "" THEN "" ELSE LowerChar(Head(s)) \o Lower(Tail(s))

IsSpace(c) == c = " "

RECURSIVE LStrip(_)
LStrip(s) == IF s # "" /\ IsSpace(Head(s)) THEN LStrip(Tail(s)) ELSE s

RECURSIVE RStrip(_)
RStrip(s) ==
    IF s # "" /\ IsSpace(SubSeq(s, Len(s), Len(s)))
    THEN RStrip(SubSeq(s, 1, Len(s) - 1)) ELSE s

\* str.strip()
Strip(s) == LStrip(RStrip(s))

\* p in s
IsSubstr(p, s) == \E i \in 1..(Len(s) - Len(p) + 1) : SubSeq(s, i, i + Len(p) - 1) = p

\* any(phrase in text for phrase in phrases)
AnyIn(phrases, text) == \E p \in phrases : IsSubstr(p, text)

\* s.startswith(p)
StartsWith(s, p) == Len(p) <= Len(s) /\ SubSeq(s, 1, Len(p)) = p

\* s.endswith(p)
EndsWith(s, p) == Len(p) <= Len(s) /\ SubSeq(s, Len(s) - Len(p) + 1, Len(s)) = p

\* s.split()[0] if s.split() else ""
FirstWord(s) ==
    LET t == LStrip(s)
        ends == {i \in 1..Len(t) : IsSpace(SubSeq(t, i, i))}
    IN  IF t = "" THEN ""
        ELSE IF ends = {} THEN t
        ELSE SubSeq(t, 1, (CHOOSE i \in ends : \A j \in ends : i <= j) - 1)

\* \w of the re module, on one character
IsWordChar(c) == IsSubstr(c, "abcdefghijklmnopqrstuvwxyz0123456789_ABCDEFGHIJKLMNOPQRSTUVWXYZ")

\* \b at position i (between characters i-1 and i)
Boundary(s, i) ==
    ((i > 1 /\ i - 1 <= Len(s)) /\ IsWordChar(SubSeq(s, i - 1, i - 1)))
        # ((i >= 1 /\ i <= Len(s)) /\ IsWordChar(SubSeq(s, i, i)))

\* first position >= i that holds no white space
RECURSIVE SkipSpace(_, _)
SkipSpace(s, i) == IF i <= Len(s) /\ IsSpace(SubSeq(s, i, i)) THEN SkipSpace(s, i + 1) ELSE i

\* the position after a match of w1 \s+ w2 \s+ ... at position i, or 0
RECURSIVE MatchEnd(_, _, _)
MatchEnd(s, i, ws) ==
    LET w == Head(ws)
        j == i + Len(w)
    IN  IF ~(j - 1 <= Len(s) /\ SubSeq(s, i, j - 1) = w) THEN 0
        ELSE IF Len(ws) = 1 THEN j
        ELSE IF SkipSpace(s, j) = j THEN 0
        ELSE MatchEnd(s, SkipSpace(s, j), Tail(ws))

\* positions after a match of \b(alt1|alt2|...)\b starting anywhere; every
\* alternative is a sequence of words separated by \s+
AltEnds(s, alts) ==
    {j \in 2..(Len(s) + 1) :
        \E i \in 1..Len(s) : \E ws \in alts :
            Boundary(s, i) /\ MatchEnd(s, i, ws) = j /\ Boundary(s, j)}

\* re.search(r'\b(alts)\b', s)
SearchAlt(s, alts) == AltEnds(s, alts) # {}

\* re.search(r'\b(alts)\b.*\?', s)
SearchAltThenChar(s, alts, c) ==
    \E j \in AltEnds(s, alts) : \E k \in j..Len(s) : SubSeq(s, k, k) = c

\* re.search(r'\b(alts1)\b.*\b(alts2)\b', s)
SearchAltThenAlt(s, alts1, alts2) ==
    \E j \in AltEnds(s, alts1) :
        \E i \in j..Len(s) : \E ws \in alts2 :
            Boundary(s, i) /\ MatchEnd(s, i, ws) # 0 /\ Boundary(s, MatchEnd(s, i, ws))

W1(a) == {<<x>> : x \in a}

QuestionWords == {"what", "how", "why", "when", "where", "which", "who"}
AuxVerbs == {"is", "are", "was", "were", "do", "does", "did", "can", "could", "should", "would"}

\* search_patterns of is_search_intent, in the order of the list
SearchPatternMatches(m) ==
    <<  SearchAltThenChar(m, W1(QuestionWords), "?"),
        SearchAlt(m, {<<q, a>> : q \in QuestionWords, a \in AuxVerbs}),
        SearchAlt(m, W1({"find", "search", "explain"})
                        \cup {<<"look", "for">>, <<"tell", "me", "about">>, <<"show", "me">>}),
        SearchAltThenAlt(m, W1({"best", "top", "latest", "newest", "recent", "current"}),
                            W1({"in", "for", "about", "on"})),
        SearchAlt(m, {<<"how", "to">>, <<"ways", "to">>, <<"steps", "to">>}),
        SearchAlt(m, {<<"what", "is">>, <<"what", "are">>, <<"what's">>}),
        SearchAlt(m, {<<"learn", "about">>, <<"information", "about">>, <<"details", "about">>}),
        SearchAlt(m, W1({"compare", "vs", "versus"}) \cup {<<"difference", "between">>}),
        SearchAlt(m, W1({"recommend", "suggest", "advice"})),
        SearchAlt(m, W1({"advantages", "disadvantages"}) \cup {<<"pros", "and", "cons">>}),
        SearchAlt(m, {<<"latest", "in">>, <<"trends", "in">>, <<"news", "about">>, <<"updates", "on">>}),
        SearchAlt(m, W1({"technology", "tech", "AI"})
                        \cup {<<"artificial", "intelligence">>, <<"machine", "learning">>}),
        SearchAlt(m, W1({"explain"}) \cup {<<"definition", "of">>, <<"meaning", "of">>}),
        SearchAlt(m, {<<"guide", "to">>, <<"tutorial", "on">>, <<"instructions", "for">>})  >>

ExclusionKeywords ==
    {"send email", "email to", "draft email", "compose email",
     "add contact", "delete contact", "update contact", "contact info",
     "create meeting", "schedule", "calendar", "appointment", "book",
     "find places", "restaurants near", "coffee shops", "best pizza in"}

ImperativeStarters == {"find", "search", "look", "show", "tell", "explain", "help", "get"}

\* a heuristic that looks at the first word before the exclusion keywords
is_search_intent_starters_first(message) ==
    LET message_lower == Strip(Lower(message))
        hits == SearchPatternMatches(message_lower)
    IN  IF Len(message_lower) < 5 \/ StartsWith(message_lower, "/") THEN FALSE
        ELSE IF FirstWord(message_lower) \in ImperativeStarters THEN TRUE
        ELSE IF AnyIn(ExclusionKeywords, message_lower) THEN FALSE
        ELSE IF \E k \in DOMAIN hits : hits[k] THEN TRUE
        ELSE EndsWith(message_lower, "?")

is_search_intent(message) ==
    LET message_lower == Strip(Lower(message))
        hits == SearchPatternMatches(message_lower)
    IN  IF Len(message_lower) < 5 \/ StartsWith(message_lower, "/") THEN FALSE
        ELSE IF AnyIn(ExclusionKeywords, message_lower) THEN FALSE
        ELSE IF \E k \in DOMAIN hits : hits[k] THEN TRUE
        ELSE IF EndsWith(message_lower, "?") THEN TRUE
        ELSE FirstWord(message_lower) \in ImperativeStarters

-----------------------------------------------------------------------------
(* Values *)

\* sender identifiers (the From field of the webhook form)
Senders == {"+1555", "+1777"}

\* message bodies (the Body field of the webhook form)
Bodies == {"Yes", "no", "shorter", "time now", "yes time now", "What is AI?"}

\* the Body that comes with an audio attachment
AudioBodies == {""}

\* what transcribe_audio can return: the stripped transcript, or None (<<>>)
Transcripts == {<<"Yes">>, <<"no">>, <<"time now">>, <<"">>, <<>>}

\* the bodies of the runs that add contacts
ContactBodies == {"add Bob"}

\* Further bodies, for the runs that start with a message already handed to
\* the dispatcher: texts the search heuristic rejects although they match
\* accept conditions (too short, a leading slash, an exclusion keyword),
\* and texts it accepts on the strength of one condition alone ...
SearchProbes ==
    {"why?", "/find ai", "Find best pizza in Downtown Dubai", "help me out", "is it so?"}
\* ... and texts with an approval and a cancellation phrase, with "no" or
\* "yes" inside a longer word
BranchProbes == {"no, send it", "I know", "yesterday"}

Texts ==
    Bodies \cup AudioBodies \cup {tr[1] : tr \in Transcripts \ {<<>>}}
        \cup SearchProbes \cup BranchProbes \cup ContactBodies

\* the phrase lists of process_message_background_optimized
DateTimePhrases ==
    {"what is the date", "what's the date", "what date is it",
     "what is today's date", "what's today's date", "date today",
     "what time is it", "what's the time", "current time", "time now"}
TimeFirstPhrases == {"time", "what time"}
ApprovalPhrases == {"yes", "send it", "please send", "go ahead", "confirm", "approve"}
CancelPhrases == {"no", "cancel", "don't send", "do not send"}

\* body.strip().lower()
Normalise(body) == Lower(Strip(body))

IsDateTimeQuery(body) == AnyIn(DateTimePhrases, Normalise(body))
IsApproval(body) == AnyIn(ApprovalPhrases, Normalise(body))
IsCancellation(body) == AnyIn(CancelPhrases, Normalise(body))

\* The classifications of every text of the model, computed once.
TextTable ==
    [b \in Texts |->
        [datetime |-> IsDateTimeQuery(b),
         timefirst |-> AnyIn(TimeFirstPhrases, Normalise(b)),
         approval |-> IsApproval(b),
         cancellation |-> IsCancellation(b),
         search |-> is_search_intent(b)]]

\* an email draft: the value stored in pending_email_drafts
Draft(to, subject, body) == [to_email |-> to, subject |-> subject, email_body |-> body]
NoDraft == Draft("", "", "")

\* a removal that empties the dict
Clear(m, k) == <<>>

\* Python dicts are functions on their key set
Put(m, k, v) == [y \in DOMAIN m \cup {k} |-> IF y = k THEN v ELSE m[y]]
Pop(m, k) == [y \in DOMAIN m \ {k} |-> m[y]]

\* The intent record the extractor returns (data.get(...) of a missing key,
\* None and "" are all falsy: "" stands for the three).
Data(intent, re, rn, su, eb, pq, pl, sq) ==
    [intent |-> intent, recipient_email |-> re, recipient_name |-> rn, subject |-> su,
     email_body |-> eb, place_query |-> pq, place_location |-> pl, search_query |-> sq]
NoData == Data("", "", "", "", "", "", "", "")

SendEmailData ==
    {Data("send_email", re, rn, "Late", "Running late", "", "", "") :
        re \in {"", "sarah@x.com"}, rn \in {"", "Sarah"}}
    \cup {Data("send_email", "sarah@x.com", "", "", "Running late", "", "", ""),
          Data("send_email", "", "Sarah", "Late", "", "", "", ""),
          Data("send_email", "bob@x.com", "", "Lunch", "See you at one", "", "", "")}
FindPlaceData ==
    {Data("find_place", "", "", "", "", pq, pl, "") :
        pq \in {"", "coffee"}, pl \in {"", "None", "Marina"}}
PlaceDetailsData == {Data("place_details", "", "", "", "", pq, "", "") : pq \in {"", "coffee"}}
WebSearchData == {Data("web_search", "", "", "", "", "", "", sq) : sq \in {"", "ev news"}}

\* the intents handled by the remaining handlers of the dispatch chain
OtherHandlerIntents ==
    {"lookup_contact", "add_contact", "update_contact", "delete_contact", "calendar_auth",
     "calendar_create", "calendar_list", "calendar_update", "calendar_delete",
     "calendar_bulk_create", "calendar_bulk_delete", "memory_query", "list_contacts"}
\* the one the model draws (the dispatch treats all thirteen alike)
SampledHandlerIntents == {"lookup_contact"}
OtherHandlerData == {Data(i, "", "", "", "", "", "", "") : i \in SampledHandlerIntents}
\* "other", and a tag outside the enumeration
UnroutedData == {Data(i, "", "", "", "", "", "", "") : i \in {"other", "remind_me"}}

\* What extract_email_info_with_llm_optimized returns when it is left to
\* run: None (its own 20 s timeout or any exception; an empty or null JSON
\* value is as falsy), a JSON object, or a JSON value that is neither falsy
\* nor an object ("value": a string, a number, a list).
LLMResults ==
    {[kind |-> "none", data |-> NoData], [kind |-> "value", data |-> NoData]}
    \cup {[kind |-> "data", data |-> d] :
            d \in SendEmailData \cup FindPlaceData \cup PlaceDetailsData \cup WebSearchData
                    \cup OtherHandlerData \cup UnroutedData}

\* How a call of the Memory Store ends.  Its clients (Supabase, Pinecone,
\* the embedding call) are blocking: the coroutines that call them have no
\* await of their own, so the event loop runs nothing else until the call
\* is back.  "late": back, with a value or an exception, only after the
\* 25 s the dispatcher gives the extraction.
MemoryOutcomes == {"ok", "raises", "late"}

\* What the dispatcher's await of the extraction task gives.  The task of
\* the conversation write (store_memory_async) and the context retrieval
\* inside the extractor both start running as soon as the dispatcher
\* awaits; llm is what the extractor returns, write and context how the
\* two Memory Store operations end.  An exception of either is caught
\* where it is raised.  When one is late the timer of the dispatcher is
\* due by the time the loop runs again, and the await ends in TimeoutError
\* whatever the extractor had.
AwaitExtraction(llm, write, context) ==
    IF write = "late" THEN [kind |-> "timeout", data |-> NoData, late |-> "write"]
    ELSE IF context = "late" THEN [kind |-> "timeout", data |-> NoData, late |-> "context"]
    ELSE [kind |-> llm.kind, data |-> llm.data, late |-> ""]

\* What awaiting the extraction task can give: what the extractor returned,
\* or the 25 s timeout of the dispatcher, on account of a Memory Store call
\* or of any other blocking call that held the loop ("other").
ExtractResults ==
    {AwaitExtraction(llm, write, context) :
        llm \in LLMResults, write \in MemoryOutcomes, context \in MemoryOutcomes}
    \cup {[kind |-> "timeout", data |-> NoData, late |-> "other"]}

\* What the revision call can give: the 20 s timeout, None (any exception
\* inside revise_email_with_ai), or the parsed JSON object, whose keys and
\* values are whatever the model answered (a value may be empty).
RevisedDicts(draft) ==
    {Draft(to, "Re: Late", "On my way") : to \in {draft.to_email, "bob@x.com"}}
    \cup {Draft(draft.to_email, "", "On my way"),
          [subject |-> "Re: Late", email_body |-> "On my way"],
          [to_email |-> "bob@x.com", email_body |-> "On my way"],
          [to_email |-> "bob@x.com", subject |-> "Re: Late"],
          <<>>}
ReviseResults(draft) ==
    {[kind |-> "timeout", dict |-> <<>>], [kind |-> "none", dict |-> <<>>]}
    \cup {[kind |-> "dict", dict |-> d] : d \in RevisedDicts(draft)}

\* The contact fields of an add_contact extraction: data.get("contact_name"),
\* data.get("contact_email"), data.get("contact_phone") ("" when missing).
Contact(name, email, phone) ==
    [contact_name |-> name, contact_email |-> email, contact_phone |-> phone]
NoContact == Contact("", "", "")
ContactNames == {"Bob", " bob "}
Contacts ==
    {Contact(n, e, "") : n \in ContactNames \cup {""}, e \in {"", "bob@x.com"}}

\* str(...).strip().lower() of the full names, computed once
ContactKey == [n \in ContactNames |-> Normalise(n)]

\* what the await of the extraction gives for an add_contact message
AddContactResult ==
    [kind |-> "data", data |-> Data("add_contact", "", "", "", "", "", "", ""), late |-> ""]

\* How client.messages.create ends inside send_whatsapp_message
SendOutcomes == {"sent", "err_daily_limit", "err_63038", "err_other"}

\* the text of the exception, as far as send_whatsapp_message reads it
ErrorText(outcome) ==
    CASE outcome = "err_daily_limit" -> "exceeded the daily messages limit"
      [] outcome = "err_63038" -> "HTTP 429 error: 63038"
      [] outcome = "err_other" -> "HTTP 400 error: invalid number"
      [] OTHER -> ""

-----------------------------------------------------------------------------
(* State *)

VARIABLES
    pending_email_drafts,   \* dict: sender -> draft
    delayed_responses,      \* dict: sender -> reply text
    pending_place_queries,  \* dict: sender -> place term
    task,                   \* the background tasks: locals, position, and what each did
    hook,                   \* the webhook call made in the last step, if any
    since_hook,             \* per sender: its last webhook call, and the first text stored for it since
    sheet_rows,             \* the contact sheet: the full_name of its rows, in order
    sheets_cache            \* <<>>, or the one entry "sheet_records" with its age

vars == <<pending_email_drafts, delayed_responses, pending_place_queries, task, hook, since_hook,
          sheet_rows, sheets_cache>>

\* the contact sheet and the cache of its records
sheet_vars == <<sheet_rows, sheets_cache>>

Tasks == 1..MaxTasks

\* A task slot before the webhook schedules it.
IdleTask ==
    [pc |-> "idle", from_number |-> "", body |-> "", audio |-> FALSE,
     draft |-> NoDraft, data |-> NoData, place_query |-> "", place_location |-> "",
     branch |-> "", saw_draft |-> FALSE, saw_place |-> FALSE,
     extract_calls |-> 0, email_calls |-> <<>>, place_calls |-> <<>>, revise_calls |-> 0,
     extracted |-> "", late |-> "", replaced |-> NoDraft,
     contact |-> NoContact, records |-> <<>>, call_ok |-> TRUE,
     revised |-> <<>>, handlers |-> <<>>, out |-> <<>>]

\* A task whose coroutine has returned and whose record is gone.
RetiredTask == [IdleTask EXCEPT !.pc = "retired"]

\* the tasks at position pc
At(pc) == {t \in 1..MaxTasks : task[t].pc = pc}

\* The record a task leaves when it returns
Returned(rec) == [rec EXCEPT !.pc = "done"]

NoHook == [from |-> "", kind |-> "none", response |-> <<>>]

Init ==
    /\ pending_email_drafts = <<>>
    /\ delayed_responses = <<>>
    /\ pending_place_queries = <<>>
    /\ task = [t \in Tasks |-> IdleTask]
    /\ hook = NoHook
    /\ since_hook = [s \in Senders |->
                        [last |-> "none", first_stored |-> <<>>, last_stored |-> <<>>]]
    /\ sheet_rows = <<>>
    /\ sheets_cache = <<>>

\* The record of a task that has returned ("done") shows what the task did;
\* it is kept for one state and dropped by the next step.
Swept == [u \in Tasks |-> IF task[u].pc = "done" THEN RetiredTask ELSE task[u]]

\* a step of task t that does not return
Proceed(t, rec) ==
    /\ task' = [Swept EXCEPT ![t] = rec]
    /\ hook' = NoHook
    /\ UNCHANGED <<delayed_responses, since_hook>>

\* ... and has nothing to do with the contact sheet
Continue(t, rec) == Proceed(t, rec) /\ UNCHANGED sheet_vars

-----------------------------------------------------------------------------
(* Outbound send *)

\* a test that takes every failure for a rate-limit error
IsAnyError(error_str) == error_str # ""

\* "daily messages limit" in error_str or "63038" in error_str
IsRateLimitError(error_str) ==
    IsSubstr("daily messages limit", error_str) \/ IsSubstr("63038", error_str)

\* the outcomes whose exception text is a rate-limit error, computed once
RateLimitOutcomes == {o \in SendOutcomes : IsRateLimitError(ErrorText(o))}

\* send_whatsapp_message: the delayed_responses it leaves
send_whatsapp_message(dr, to_number, message, outcome) ==
    IF outcome = "sent" THEN dr
    ELSE IF outcome \in RateLimitOutcomes THEN Put(dr, to_number, message)
    ELSE dr

\* A step of task t that ends with one call of send_whatsapp_message and
\* returns: rec is the task's record after the step.
Reply(t, rec, message, outcome) ==
    LET to == rec.from_number
        dr == send_whatsapp_message(delayed_responses, to, message, outcome)
    IN  /\ delayed_responses' = dr
        /\ since_hook' = IF dr = delayed_responses THEN since_hook
                         ELSE [since_hook EXCEPT
                                ![to].first_stored = IF @ = <<>> THEN <<message>> ELSE @,
                                ![to].last_stored = <<message>>]
        /\ task' = [Swept EXCEPT ![t] =
                        [Returned(rec) EXCEPT
                            !.out = Append(@, [text |-> message, result |-> outcome])]]
        /\ hook' = NoHook

\* ... in a step that has nothing to do with the contact sheet
ReplyAndReturn(t, rec, message, outcome) ==
    Reply(t, rec, message, outcome) /\ UNCHANGED sheet_vars

-----------------------------------------------------------------------------
(* Webhook *)

\* what a sender's webhook call leaves in since_hook
HookNoted(From, kind) ==
    [since_hook EXCEPT ![From] = [last |-> kind, first_stored |-> <<>>, last_stored |-> <<>>]]

\* a webhook that does not look for a delayed response
NeverDelayed(From) == FALSE

\* if From in delayed_responses
HasDelayed(From) == From \in DOMAIN delayed_responses

\* a replay that reads the delayed response and leaves it stored
DelayedKept(dr, From) == dr

\* delayed_responses.pop(From): the map it leaves
DelayedAfterReplay(dr, From) == Pop(dr, From)

\* whatsapp_webhook when a delayed response is stored for From
WebhookReplay(From) ==
    /\ HasDelayed(From)
    /\ hook' = [from |-> From, kind |-> "replayed", response |-> delayed_responses[From]]
    /\ delayed_responses' = DelayedAfterReplay(delayed_responses, From)
    /\ since_hook' = HookNoted(From, "replayed")
    /\ task' = Swept
    /\ UNCHANGED <<pending_email_drafts, pending_place_queries, sheet_vars>>

\* a webhook that answers with the text it was sent
AcknowledgedWithBody(From, Body) == [from |-> From, kind |-> "scheduled", response |-> <<Body>>]

\* return PlainTextResponse("") once the task has been added
Acknowledged(From, Body) == [from |-> From, kind |-> "scheduled", response |-> <<>>]

\* whatsapp_webhook otherwise: schedule the background task, answer ""
WebhookSchedule(From, Body, audio) ==
    /\ ~HasDelayed(From)
    /\ \E t \in Tasks :
        /\ task[t].pc = "idle"
        /\ \A u \in Tasks : u < t => task[u].pc # "idle"
        /\ task' = [Swept EXCEPT ![t] =
                        [IdleTask EXCEPT !.pc = "start", !.from_number = From,
                                         !.body = Body, !.audio = audio]]
    /\ hook' = Acknowledged(From, Body)
    /\ since_hook' = HookNoted(From, "scheduled")
    /\ UNCHANGED <<pending_email_drafts, delayed_responses, pending_place_queries, sheet_vars>>

-----------------------------------------------------------------------------
(* Dispatcher: from the start of the task to its first real await *)

\* The reply texts, as tuples: the kind of reply and what it quotes.
DateTimeReply(body) ==
    IF TextTable[body].timefirst THEN <<"datetime", "time first">> ELSE <<"datetime", "date first">>

\* the text the draft check and the extractor see: the transcript of an
\* audio message, the body otherwise
HeardText(t, tr) == IF task[t].audio THEN tr[1] ELSE task[t].body

\* a test that takes an empty transcript for a text
TranscribedOrEmpty(t, tr) ==
    IF task[t].audio THEN tr # <<>> ELSE tr = <<>>

\* num_media != "0" and media_content_type.startswith("audio"), and
\* transcribe_audio gave a non-empty text; tr is <<>> for a text message
Transcribed(t, tr) ==
    IF task[t].audio THEN tr # <<>> /\ tr[1] # "" ELSE tr = <<>>

\* a dispatcher that gets to the draft check without the date/time test
DraftCheckFirst(t, tr) == task[t].pc = "start" /\ Transcribed(t, tr)

\* the task passes the date/time early exit and the audio step
ReachesDraftCheck(t, tr) ==
    /\ task[t].pc = "start"
    /\ ~TextTable[task[t].body].datetime
    /\ Transcribed(t, tr)

\* a draft check that looks for a cancellation phrase first
DraftBranchCancelFirst(text) ==
    IF TextTable[text].cancellation THEN "cancel"
    ELSE IF TextTable[text].approval THEN "approve"
    ELSE "revise"

\* the branch of the draft protocol a text selects
DraftBranch(text) ==
    IF TextTable[text].approval THEN "approve"
    ELSE IF TextTable[text].cancellation THEN "cancel"
    ELSE "revise"

\* a dispatcher that never finds a draft
DraftNeverPending(from_number) == FALSE

\* if from_number in pending_email_drafts
DraftPending(from_number) == from_number \in DOMAIN pending_email_drafts

\* an approval that leaves the draft stored while the email is sent
DraftsLeftWhileSending(drafts, from_number) == drafts

\* pending_email_drafts.pop(from_number) of the approval branch
DraftsAfterApproval(drafts, from_number) == Pop(drafts, from_number)

\* a cancellation branch that leaves the draft where it is
DraftsKept(drafts, from_number) == drafts

\* pending_email_drafts.pop(from_number) of the cancellation branch
DraftsAfterCancel(drafts, from_number) == Pop(drafts, from_number)

\* a call that passes the body where the subject goes
EmailCallArgsSwapped(draft) == Draft(draft["to_email"], draft["email_body"], draft["subject"])

\* the arguments of send_email_resend(to_email, subject, email_body)
EmailCallArgs(draft) == Draft(draft["to_email"], draft["subject"], draft["email_body"])

\* early exit for date/time queries
AnswerDateTime(t, outcome) ==
    /\ task[t].pc = "start"
    /\ TextTable[task[t].body].datetime
    /\ ReplyAndReturn(t, [task[t] EXCEPT !.branch = "datetime"],
                      DateTimeReply(task[t].body), outcome)
    /\ UNCHANGED <<pending_email_drafts, pending_place_queries>>

\* audio that transcribe_audio could not turn into text
TranscriptionFailed(t, tr, outcome) ==
    /\ task[t].pc = "start"
    /\ ~TextTable[task[t].body].datetime
    /\ task[t].audio
    /\ tr \in {<<>>, <<"">>}
    /\ ReplyAndReturn(t, [task[t] EXCEPT !.branch = "audio_fail"], <<"transcription failed">>, outcome)
    /\ UNCHANGED <<pending_email_drafts, pending_place_queries>>

\* what the task notes when it reaches the draft check with text body
AtDraftCheck(t, body, branch) ==
    [task[t] EXCEPT !.body = body, !.branch = branch,
                    !.saw_draft = task[t].from_number \in DOMAIN pending_email_drafts,
                    !.saw_place = task[t].from_number \in DOMAIN pending_place_queries,
                    !.draft = IF task[t].from_number \in DOMAIN pending_email_drafts
                              THEN pending_email_drafts[task[t].from_number] ELSE NoDraft]

\* draft pending, approval phrase: pop the draft, start send_email_resend, await it
ApproveDraft(t, tr) ==
    LET from_number == task[t].from_number
        body == HeardText(t, tr)
    IN  /\ ReachesDraftCheck(t, tr)
        /\ DraftPending(from_number)
        /\ DraftBranch(body) = "approve"
        /\ pending_email_drafts' = DraftsAfterApproval(pending_email_drafts, from_number)
        /\ Continue(t, [AtDraftCheck(t, body, "approve") EXCEPT
                            !.pc = "sending",
                            !.email_calls = Append(@, EmailCallArgs(pending_email_drafts[from_number]))])
        /\ UNCHANGED pending_place_queries

\* the await of the email task ends: sent, refused, or the 30 s timeout
SendEmailDone(t, result, outcome) ==
    /\ task[t].pc = "sending"
    /\ ReplyAndReturn(t, task[t],
            CASE result = "ok" -> <<"email sent">>
              [] result = "fail" -> <<"email failed">>
              [] result = "timeout" -> <<"email timed out">>,
            outcome)
    /\ UNCHANGED <<pending_email_drafts, pending_place_queries>>

\* draft pending, cancellation phrase
CancelDraft(t, tr, outcome) ==
    LET from_number == task[t].from_number
        body == HeardText(t, tr)
    IN  /\ ReachesDraftCheck(t, tr)
        /\ DraftPending(from_number)
        /\ DraftBranch(body) = "cancel"
        /\ pending_email_drafts' = DraftsAfterCancel(pending_email_drafts, from_number)
        /\ ReplyAndReturn(t, AtDraftCheck(t, body, "cancel"), <<"draft cancelled">>, outcome)
        /\ UNCHANGED pending_place_queries

\* draft pending, any other text: await revise_email_with_ai on the draft
BeginRevision(t, tr) ==
    LET from_number == task[t].from_number
        body == HeardText(t, tr)
    IN  /\ ReachesDraftCheck(t, tr)
        /\ DraftPending(from_number)
        /\ DraftBranch(body) = "revise"
        /\ Continue(t, [AtDraftCheck(t, body, "revise") EXCEPT
                            !.pc = "revising", !.revise_calls = @ + 1])
        /\ UNCHANGED <<pending_email_drafts, pending_place_queries>>

\* how the dispatcher reads the result of the revision call
RevisionVerdict(rev) ==
    IF rev.kind = "timeout" THEN "timeout"
    ELSE IF rev.kind = "none" \/ DOMAIN rev.dict = {} THEN "failed"
    ELSE IF ~({"to_email", "subject", "email_body"} \subseteq DOMAIN rev.dict) THEN "key error"
    ELSE "revised"

\* a revision that stores the revised record as it came
DraftsSetToRevised(drafts, from_number, rev) ==
    IF rev.kind = "dict" /\ DOMAIN rev.dict # {} THEN Put(drafts, from_number, rev.dict)
    ELSE drafts

\* a revision that updates the stored draft field by field with whatever
\* fields the revised record has
DraftsUpdatedFieldwise(drafts, from_number, rev) ==
    IF rev.kind # "dict" \/ DOMAIN rev.dict = {} \/ from_number \notin DOMAIN drafts
    THEN drafts
    ELSE Put(drafts, from_number,
             [f \in {"to_email", "subject", "email_body"} |->
                IF f \in DOMAIN rev.dict THEN rev.dict[f] ELSE drafts[from_number][f]])

\* pending_email_drafts after the revision call has returned rev
DraftsAfterRevision(drafts, from_number, rev) ==
    IF RevisionVerdict(rev) = "revised"
    THEN Put(drafts, from_number,
             Draft(rev.dict["to_email"], rev.dict["subject"], rev.dict["email_body"]))
    ELSE drafts

\* the await of the revision call ends
FinishRevision(t, rev, outcome) ==
    LET from_number == task[t].from_number
        verdict == RevisionVerdict(rev)
    IN  /\ task[t].pc = "revising"
        /\ pending_email_drafts' = DraftsAfterRevision(pending_email_drafts, from_number, rev)
        /\ ReplyAndReturn(t, [task[t] EXCEPT !.revised = <<rev>>],
                CASE verdict = "timeout" -> <<"revision timed out">>
                  [] verdict = "failed" -> <<"revision failed">>
                  [] verdict = "key error" -> <<"something went wrong">>
                  [] verdict = "revised" -> <<"revised draft">>,
                outcome)
        /\ UNCHANGED pending_place_queries

\* no draft pending: start the extraction task and await it (25 s)
BeginExtraction(t, tr) ==
    LET from_number == task[t].from_number
        body == HeardText(t, tr)
    IN  /\ ReachesDraftCheck(t, tr)
        /\ ~DraftPending(from_number)
        /\ Continue(t, [AtDraftCheck(t, body, "extract") EXCEPT
                            !.pc = "extracting", !.extract_calls = @ + 1])
        /\ UNCHANGED <<pending_email_drafts, pending_place_queries>>

-----------------------------------------------------------------------------
(* Dispatcher: after the extraction *)

Truthy(v) == v # ""

\* a test that forgets the case of no data
OnlyOtherIntent(r) == r.data.intent = "other"

\* not data or data.get("intent") == "other"
NoActionableIntent(r) == r.kind = "none" \/ r.data.intent = "other"

\* the intents the elif chain of the dispatcher routes to a handler
RoutedIntents ==
    {"send_email", "find_place", "place_details", "web_search"} \cup OtherHandlerIntents

\* where the dispatcher sends the result r of the extraction for text body
Route(r, body) ==
    IF r.kind = "timeout" THEN "timeout"
    ELSE IF r.kind = "value" THEN "attribute error"
    ELSE IF NoActionableIntent(r) /\ TextTable[body].search THEN "fallback_search"
    ELSE IF r.kind = "data" /\ r.data.intent \in RoutedIntents THEN r.data.intent
    ELSE "default"

\* a dispatcher that runs the fallback search and then the handler as well
HandlingAfterSearch(t, r, h) ==
    [task[t] EXCEPT !.body = "", !.data = r.data, !.extracted = r.kind,
                    !.handlers = @ \o <<"fallback_search", h>>]

\* the record of a task that enters handler h after the extraction gave r:
\* the handler is given the extracted data and the sender, not the text
Handling(t, r, h) ==
    [task[t] EXCEPT !.body = "", !.data = r.data, !.extracted = r.kind,
                    !.handlers = Append(@, h)]

\* the dispatcher's own timeout around the extraction task
ExtractionTimedOut(t, r, outcome) ==
    /\ task[t].pc = "extracting"
    /\ Route(r, task[t].body) = "timeout"
    /\ ReplyAndReturn(t, [task[t] EXCEPT !.extracted = r.kind, !.late = r.late],
                      <<"processing timed out">>, outcome)
    /\ UNCHANGED <<pending_email_drafts, pending_place_queries>>

\* data has no get(): the AttributeError of the first test of the dispatch
\* ends in the dispatcher's except
DispatchFailed(t, r, outcome) ==
    /\ task[t].pc = "extracting"
    /\ Route(r, task[t].body) = "attribute error"
    /\ ReplyAndReturn(t, [task[t] EXCEPT !.extracted = r.kind],
                      <<"something went wrong">>, outcome)
    /\ UNCHANGED <<pending_email_drafts, pending_place_queries>>

\* is_search_intent(body): await handle_search_query_optimized(body)
FallbackSearch(t, r) ==
    /\ task[t].pc = "extracting"
    /\ Route(r, task[t].body) = "fallback_search"
    /\ Continue(t, [Handling(t, r, "fallback_search") EXCEPT !.pc = "searching"])
    /\ UNCHANGED <<pending_email_drafts, pending_place_queries>>

\* the capability-listing reply at the end of the dispatcher
DefaultReply(t, r, outcome) ==
    /\ task[t].pc = "extracting"
    /\ Route(r, task[t].body) = "default"
    /\ ReplyAndReturn(t, [Handling(t, r, "default") EXCEPT !.body = task[t].body],
                      <<"capabilities">>, outcome)
    /\ UNCHANGED <<pending_email_drafts, pending_place_queries>>

\* a handler that stores its draft only when none is stored
EmailIntentKeepsFirst(drafts, from_number, to_email, subject, email_body) ==
    IF Truthy(to_email) /\ Truthy(subject) /\ Truthy(email_body)
    THEN [drafts |-> IF from_number \in DOMAIN drafts THEN drafts
                     ELSE Put(drafts, from_number, Draft(to_email, subject, email_body)),
          reply |-> <<"draft">>]
    ELSE [drafts |-> drafts, reply |-> <<"missing email details">>]

\* the end of handle_email_intent_optimized, once to_email is settled
EmailIntentOutcome(drafts, from_number, to_email, subject, email_body) ==
    IF Truthy(to_email) /\ Truthy(subject) /\ Truthy(email_body)
    THEN [drafts |-> Put(drafts, from_number, Draft(to_email, subject, email_body)),
          reply |-> <<"draft">>]
    ELSE [drafts |-> drafts, reply |-> <<"missing email details">>]

\* what the task notes when it stores a draft: the draft its assignment
\* replaced, if one was stored
Storing(rec, reply) ==
    [rec EXCEPT !.replaced =
        IF reply = <<"draft">> /\ rec.from_number \in DOMAIN pending_email_drafts
        THEN pending_email_drafts[rec.from_number] ELSE NoDraft]

\* handle_email_intent_optimized without a contact lookup
EmailIntent(t, r, outcome) ==
    LET d == r.data
        res == EmailIntentOutcome(pending_email_drafts, task[t].from_number,
                                  d.recipient_email, d.subject, d.email_body)
    IN  /\ task[t].pc = "extracting"
        /\ Route(r, task[t].body) = "send_email"
        /\ ~(~Truthy(d.recipient_email) /\ Truthy(d.recipient_name))
        /\ pending_email_drafts' = res.drafts
        /\ ReplyAndReturn(t, Storing(Handling(t, r, "send_email"), res.reply), res.reply, outcome)
        /\ UNCHANGED pending_place_queries

\* handle_email_intent_optimized: await get_email_by_name_optimized(recipient_name)
EmailIntentLookup(t, r) ==
    LET d == r.data
    IN  /\ task[t].pc = "extracting"
        /\ Route(r, task[t].body) = "send_email"
        /\ ~Truthy(d.recipient_email) /\ Truthy(d.recipient_name)
        /\ Continue(t, [Handling(t, r, "send_email") EXCEPT !.pc = "lookup"])
        /\ UNCHANGED <<pending_email_drafts, pending_place_queries>>

\* the contact lookup returns an address, or None ("")
EmailLookupDone(t, found, outcome) ==
    LET d == task[t].data
        res == EmailIntentOutcome(pending_email_drafts, task[t].from_number,
                                  found, d.subject, d.email_body)
    IN  /\ task[t].pc = "lookup"
        /\ pending_email_drafts' = IF Truthy(found) THEN res.drafts ELSE pending_email_drafts
        /\ ReplyAndReturn(t, IF Truthy(found) THEN Storing(task[t], res.reply) ELSE task[t],
                IF Truthy(found) THEN res.reply ELSE <<"no email for contact">>, outcome)
        /\ UNCHANGED pending_place_queries

\* the place terms and locations the extraction results carry
PlaceTexts == {r.data.place_query : r \in ExtractResults} \cup {r.data.place_location : r \in ExtractResults}

\* a test that compares the location without lowering it
NoLocationExact(place_location) == place_location \in {"", "null", "none"}

\* not place_location or place_location.lower() in ["", "null", "none"]
NoLocation(place_location) ==
    ~Truthy(place_location) \/ Lower(place_location) \in {"", "null", "none"}

\* the texts that do not name a location, computed once
MissingLocations == {x \in PlaceTexts : NoLocation(x)}

LocationMissing(place_location) == place_location \in MissingLocations

\* handle_place_intent_optimized, find_place, up to the search call: the
\* place term and location it settles on, and the pending queries it leaves
PlacePlan(places, from_number, d) ==
    LET pending == from_number \in DOMAIN places
        place_query == IF pending THEN places[from_number] ELSE d.place_query
        place_location == IF pending THEN d.place_query ELSE d.place_location
        popped == IF pending THEN Pop(places, from_number) ELSE places
    IN  IF ~Truthy(d.place_query)
        THEN [step |-> "no term", places |-> places, query |-> "", location |-> ""]
        ELSE IF LocationMissing(place_location)
        THEN [step |-> "ask area", places |-> Put(popped, from_number, place_query),
              query |-> place_query, location |-> place_location]
        ELSE [step |-> "search", places |-> popped,
              query |-> place_query, location |-> place_location]

\* find_place that ends without awaiting a search: no term, no location, or
\* find_places_optimized raising at once for want of an API key
PlaceIntentReply(t, r, has_key, outcome) ==
    LET d == r.data
        plan == PlacePlan(pending_place_queries, task[t].from_number, d)
    IN  /\ task[t].pc = "extracting"
        /\ Route(r, task[t].body) = "find_place"
        /\ has_key = (plan.step # "search")
        /\ pending_place_queries' = plan.places
        /\ ReplyAndReturn(t,
                [Handling(t, r, "find_place") EXCEPT
                    !.place_query = plan.query, !.place_location = plan.location,
                    !.place_calls = IF plan.step = "search"
                                    THEN Append(@, <<plan.query, plan.location>>) ELSE @],
                CASE plan.step = "no term" -> <<"what kind of place">>
                  [] plan.step = "ask area" -> <<"what area">>
                  [] plan.step = "search" -> <<"place search error">>,
                outcome)
        /\ UNCHANGED pending_email_drafts

\* find_place with term and location: await find_places_optimized
PlaceIntentSearch(t, r) ==
    LET d == r.data
        plan == PlacePlan(pending_place_queries, task[t].from_number, d)
    IN  /\ task[t].pc = "extracting"
        /\ Route(r, task[t].body) = "find_place"
        /\ plan.step = "search"
        /\ pending_place_queries' = plan.places
        /\ Continue(t, [Handling(t, r, "find_place") EXCEPT
                            !.pc = "placing",
                            !.place_query = plan.query, !.place_location = plan.location,
                            !.place_calls = Append(@, <<plan.query, plan.location>>)])
        /\ UNCHANGED pending_email_drafts

\* place_details without a place term
PlaceDetailsReply(t, r, outcome) ==
    /\ task[t].pc = "extracting"
    /\ Route(r, task[t].body) = "place_details"
    /\ ~Truthy(r.data.place_query)
    /\ ReplyAndReturn(t, Handling(t, r, "place_details"), <<"which place">>, outcome)
    /\ UNCHANGED <<pending_email_drafts, pending_place_queries>>

\* place_details: await find_places_optimized(place_query)
PlaceDetailsSearch(t, r) ==
    /\ task[t].pc = "extracting"
    /\ Route(r, task[t].body) = "place_details"
    /\ Truthy(r.data.place_query)
    /\ Continue(t, [Handling(t, r, "place_details") EXCEPT
                        !.pc = "placing", !.place_query = r.data.place_query,
                        !.place_calls = Append(@, <<r.data.place_query, "">>)])
    /\ UNCHANGED <<pending_email_drafts, pending_place_queries>>

\* the place search returns results, nothing, or raises
PlaceSearchDone(t, result, outcome) ==
    /\ task[t].pc = "placing"
    /\ ReplyAndReturn(t, task[t], <<"places", result>>, outcome)
    /\ UNCHANGED <<pending_email_drafts, pending_place_queries>>

\* handle_web_search_intent_optimized without a query
WebSearchReply(t, r, outcome) ==
    /\ task[t].pc = "extracting"
    /\ Route(r, task[t].body) = "web_search"
    /\ ~Truthy(r.data.search_query)
    /\ ReplyAndReturn(t, Handling(t, r, "web_search"), <<"what to search for">>, outcome)
    /\ UNCHANGED <<pending_email_drafts, pending_place_queries>>

\* handle_web_search_intent_optimized: await handle_search_query_optimized
WebSearch(t, r) ==
    /\ task[t].pc = "extracting"
    /\ Route(r, task[t].body) = "web_search"
    /\ Truthy(r.data.search_query)
    /\ Continue(t, [Handling(t, r, "web_search") EXCEPT !.pc = "searching"])
    /\ UNCHANGED <<pending_email_drafts, pending_place_queries>>

\* handle_search_query_optimized returns its summary or one of its error texts
SearchDone(t, result, outcome) ==
    /\ task[t].pc = "searching"
    /\ ReplyAndReturn(t, task[t], <<"search", result>>, outcome)
    /\ UNCHANGED <<pending_email_drafts, pending_place_queries>>

\* one of the contact, calendar and memory handlers: it awaits its connector
OtherHandler(t, r) ==
    /\ task[t].pc = "extracting"
    /\ Route(r, task[t].body) \in OtherHandlerIntents
    /\ Continue(t, [Handling(t, r, r.data.intent) EXCEPT !.pc = "handling"])
    /\ UNCHANGED <<pending_email_drafts, pending_place_queries>>

\* ... and replies with what the connector gave
OtherHandlerDone(t, result, outcome) ==
    /\ task[t].pc = "handling"
    /\ ReplyAndReturn(t, task[t], <<task[t].data.intent, result>>, outcome)
    /\ UNCHANGED <<pending_email_drafts, pending_place_queries>>

-----------------------------------------------------------------------------
(* add_contact: the handler, the sheet and the cache of its records.  The  *)
(* sheet calls run in the thread pool: the thread's read or append is one  *)
(* step, the return of the awaiting coroutine another.                     *)

\* the cache answers: the entry is there and younger than CACHE_TTL
CacheValid == sheets_cache # <<>> /\ sheets_cache[1].fresh

\* the existence test of add_contact_to_sheet_optimized on the records read
ContactExists(records, name) ==
    \E i \in DOMAIN records : ContactKey[records[i]] = ContactKey[name]

\* the handler goes on to add_contact_to_sheet_optimized
ContactWanted(c) ==
    Truthy(c.contact_name) /\ (Truthy(c.contact_email) \/ Truthy(c.contact_phone))

\* the task enters handle_add_contact_intent_optimized with the fields c
AddingContact(t, c) ==
    /\ task[t].pc = "extracting"
    /\ Route(AddContactResult, task[t].body) = "add_contact"
    /\ c \in Contacts

\* no name, or a name with neither email nor phone: ask for it
AddContactRefused(t, c, outcome) ==
    /\ AddingContact(t, c)
    /\ ~ContactWanted(c)
    /\ ReplyAndReturn(t, [Handling(t, AddContactResult, "add_contact") EXCEPT !.contact = c],
            IF Truthy(c.contact_name) THEN <<"contact method needed">>
            ELSE <<"contact name needed">>, outcome)
    /\ UNCHANGED <<pending_email_drafts, pending_place_queries>>

\* get_cached_sheet_records answers from the cache and the name is in it
AddContactKnownInCache(t, c, outcome) ==
    /\ AddingContact(t, c)
    /\ ContactWanted(c)
    /\ CacheValid
    /\ ContactExists(sheets_cache[1].records, c.contact_name)
    /\ ReplyAndReturn(t, [Handling(t, AddContactResult, "add_contact") EXCEPT
                            !.contact = c, !.records = sheets_cache[1].records],
                      <<"contact exists or failed">>, outcome)
    /\ UNCHANGED <<pending_email_drafts, pending_place_queries>>

\* ... answers from the cache, the name is not in it: await sheet.append_row
AddContactFromCache(t, c) ==
    /\ AddingContact(t, c)
    /\ ContactWanted(c)
    /\ CacheValid
    /\ ~ContactExists(sheets_cache[1].records, c.contact_name)
    /\ Continue(t, [Handling(t, AddContactResult, "add_contact") EXCEPT
                        !.pc = "appending", !.contact = c, !.records = sheets_cache[1].records])
    /\ UNCHANGED <<pending_email_drafts, pending_place_queries>>

\* no valid cache entry: await sheet.get_all_records in the thread pool
AddContactFetch(t, c) ==
    /\ AddingContact(t, c)
    /\ ContactWanted(c)
    /\ ~CacheValid
    /\ Continue(t, [Handling(t, AddContactResult, "add_contact") EXCEPT
                        !.pc = "fetching", !.contact = c])
    /\ UNCHANGED <<pending_email_drafts, pending_place_queries>>

\* the thread reads the sheet, or the read raises
SheetRead(t, ok) ==
    /\ task[t].pc = "fetching"
    /\ Continue(t, [task[t] EXCEPT !.pc = "fetched", !.call_ok = ok,
                                   !.records = IF ok THEN sheet_rows ELSE <<>>])
    /\ UNCHANGED <<pending_email_drafts, pending_place_queries>>

\* what get_cached_sheet_records returns when the await is over: the
\* records read, or after an exception sheets_cache.get(cache_key, [])
RecordsFetched(t) ==
    IF task[t].call_ok THEN task[t].records
    ELSE IF sheets_cache # <<>> THEN sheets_cache[1].records ELSE <<>>

\* ... and the cache it leaves: the records read, with the time of the call
CacheAfterFetch(t) ==
    IF task[t].call_ok THEN <<[records |-> task[t].records, fresh |-> TRUE]>>
    ELSE sheets_cache

\* the records are back and the name is among them
FetchedKnown(t, outcome) ==
    /\ task[t].pc = "fetched"
    /\ ContactExists(RecordsFetched(t), task[t].contact.contact_name)
    /\ sheets_cache' = CacheAfterFetch(t)
    /\ Reply(t, [task[t] EXCEPT !.records = RecordsFetched(t)],
             <<"contact exists or failed">>, outcome)
    /\ UNCHANGED <<pending_email_drafts, pending_place_queries, sheet_rows>>

\* the records are back, the name is not among them: await sheet.append_row
FetchedNew(t) ==
    /\ task[t].pc = "fetched"
    /\ ~ContactExists(RecordsFetched(t), task[t].contact.contact_name)
    /\ sheets_cache' = CacheAfterFetch(t)
    /\ Proceed(t, [task[t] EXCEPT !.pc = "appending", !.records = RecordsFetched(t)])
    /\ UNCHANGED <<pending_email_drafts, pending_place_queries, sheet_rows>>

\* the thread appends the row, or the call raises
RowAppended(t, ok) ==
    /\ task[t].pc = "appending"
    /\ sheet_rows' = IF ok THEN Append(sheet_rows, task[t].contact.contact_name) ELSE sheet_rows
    /\ Proceed(t, [task[t] EXCEPT !.pc = "appended", !.call_ok = ok])
    /\ UNCHANGED <<pending_email_drafts, pending_place_queries, sheets_cache>>

\* the await of append_row is over: drop the cache entry, reply
AppendReturned(t, outcome) ==
    /\ task[t].pc = "appended"
    /\ sheets_cache' = IF task[t].call_ok THEN <<>> ELSE sheets_cache
    /\ Reply(t, task[t],
             IF task[t].call_ok THEN <<"contact added">> ELSE <<"contact exists or failed">>,
             outcome)
    /\ UNCHANGED <<pending_email_drafts, pending_place_queries, sheet_rows>>

\* CACHE_TTL seconds have passed since the cache entry was written
CacheExpires ==
    /\ CacheValid
    /\ sheets_cache' = <<[sheets_cache[1] EXCEPT !.fresh = FALSE]>>
    /\ task' = Swept
    /\ hook' = NoHook
    /\ UNCHANGED <<pending_email_drafts, delayed_responses, pending_place_queries,
                   since_hook, sheet_rows>>

-----------------------------------------------------------------------------
Next ==
    \/ \E s \in Senders : WebhookReplay(s)
    \/ \E s \in Senders, a \in BOOLEAN :
            \E b \in IF a THEN AudioBodies ELSE Bodies : WebhookSchedule(s, b, a)
    \/ \E t \in At("start"), o \in SendOutcomes : AnswerDateTime(t, o)
    \/ \E t \in At("start"), tr \in Transcripts, o \in SendOutcomes : TranscriptionFailed(t, tr, o)
    \/ \E t \in At("start"), tr \in Transcripts : ApproveDraft(t, tr)
    \/ \E t \in At("sending"), r \in {"ok", "fail", "timeout"}, o \in SendOutcomes : SendEmailDone(t, r, o)
    \/ \E t \in At("start"), tr \in Transcripts, o \in SendOutcomes : CancelDraft(t, tr, o)
    \/ \E t \in At("start"), tr \in Transcripts : BeginRevision(t, tr)
    \/ \E t \in At("revising"), o \in SendOutcomes :
            \E rev \in ReviseResults(task[t].draft) : FinishRevision(t, rev, o)
    \/ \E t \in At("start"), tr \in Transcripts : BeginExtraction(t, tr)
    \/ \E t \in At("extracting"), r \in ExtractResults, o \in SendOutcomes : ExtractionTimedOut(t, r, o)
    \/ \E t \in At("extracting"), r \in ExtractResults, o \in SendOutcomes : DispatchFailed(t, r, o)
    \/ \E t \in At("extracting"), r \in ExtractResults : FallbackSearch(t, r)
    \/ \E t \in At("extracting"), r \in ExtractResults, o \in SendOutcomes : DefaultReply(t, r, o)
    \/ \E t \in At("extracting"), r \in ExtractResults, o \in SendOutcomes : EmailIntent(t, r, o)
    \/ \E t \in At("extracting"), r \in ExtractResults : EmailIntentLookup(t, r)
    \/ \E t \in At("lookup"), f \in {"", "sarah@x.com"}, o \in SendOutcomes : EmailLookupDone(t, f, o)
    \/ \E t \in At("extracting"), r \in ExtractResults, k \in BOOLEAN, o \in SendOutcomes :
            PlaceIntentReply(t, r, k, o)
    \/ \E t \in At("extracting"), r \in ExtractResults : PlaceIntentSearch(t, r)
    \/ \E t \in At("extracting"), r \in ExtractResults, o \in SendOutcomes : PlaceDetailsReply(t, r, o)
    \/ \E t \in At("extracting"), r \in ExtractResults : PlaceDetailsSearch(t, r)
    \/ \E t \in At("placing"), res \in {"results", "none", "error"}, o \in SendOutcomes :
            PlaceSearchDone(t, res, o)
    \/ \E t \in At("extracting"), r \in ExtractResults, o \in SendOutcomes : WebSearchReply(t, r, o)
    \/ \E t \in At("extracting"), r \in ExtractResults : WebSearch(t, r)
    \/ \E t \in At("searching"), res \in {"summary", "error"}, o \in SendOutcomes : SearchDone(t, res, o)
    \/ \E t \in At("extracting"), r \in ExtractResults : OtherHandler(t, r)
    \/ \E t \in At("handling"), res \in {"done", "error"}, o \in SendOutcomes : OtherHandlerDone(t, res, o)

Spec == Init /\ [][Next]_vars

\* The state the program is in when an earlier message of +1555 has been
\* answered with a draft and no message is being processed: the draft is
\* stored, the tasks are yet to be scheduled.
InitDraftPending ==
    /\ pending_email_drafts = Put(<<>>, "+1555", Draft("sarah@x.com", "Late", "Running late"))
    /\ delayed_responses = <<>>
    /\ pending_place_queries = <<>>
    /\ task = [t \in Tasks |-> IdleTask]
    /\ hook = NoHook
    /\ since_hook = [s \in Senders |->
                        [last |-> IF s = "+1555" THEN "scheduled" ELSE "none",
                         first_stored |-> <<>>, last_stored |-> <<>>]]
    /\ sheet_rows = <<>>
    /\ sheets_cache = <<>>

\* the runs that start with a draft pending
SpecDraftPending == InitDraftPending /\ [][Next]_vars

\* The state the program is in when the webhook has just handed a message
\* of +1555 to the dispatcher: a text of SearchProbes with no draft stored,
\* or a text of BranchProbes with the draft of an earlier message pending.
InitProbe ==
    \E b \in SearchProbes \cup BranchProbes :
        /\ pending_email_drafts =
                IF b \in BranchProbes
                THEN Put(<<>>, "+1555", Draft("sarah@x.com", "Late", "Running late"))
                ELSE <<>>
        /\ delayed_responses = <<>>
        /\ pending_place_queries = <<>>
        /\ task = [t \in Tasks |->
                    IF t = 1
                    THEN [IdleTask EXCEPT !.pc = "start", !.from_number = "+1555", !.body = b]
                    ELSE IdleTask]
        /\ hook = Acknowledged("+1555", b)
        /\ since_hook = [s \in Senders |->
                            [last |-> IF s = "+1555" THEN "scheduled" ELSE "none",
                             first_stored |-> <<>>, last_stored |-> <<>>]]
        /\ sheet_rows = <<>>
        /\ sheets_cache = <<>>

\* the runs that start with such a message
SpecProbe == InitProbe /\ [][Next]_vars

\* The runs in which the senders add contacts: the sheet is empty or has
\* the row of Bob, and nothing is cached.
InitContacts ==
    /\ pending_email_drafts = <<>>
    /\ delayed_responses = <<>>
    /\ pending_place_queries = <<>>
    /\ task = [t \in Tasks |-> IdleTask]
    /\ hook = NoHook
    /\ since_hook = [s \in Senders |->
                        [last |-> "none", first_stored |-> <<>>, last_stored |-> <<>>]]
    /\ sheet_rows \in {<<>>, <<"Bob">>}
    /\ sheets_cache = <<>>

\* the webhook, the dispatcher up to the extraction, and add_contact
NextContacts ==
    \/ \E s \in Senders : WebhookReplay(s)
    \/ \E s \in Senders, b \in ContactBodies : WebhookSchedule(s, b, FALSE)
    \/ \E t \in At("start") : BeginExtraction(t, <<>>)
    \/ \E t \in At("extracting"), c \in Contacts, o \in SendOutcomes : AddContactRefused(t, c, o)
    \/ \E t \in At("extracting"), c \in Contacts, o \in SendOutcomes : AddContactKnownInCache(t, c, o)
    \/ \E t \in At("extracting"), c \in Contacts : AddContactFromCache(t, c)
    \/ \E t \in At("extracting"), c \in Contacts : AddContactFetch(t, c)
    \/ \E t \in At("fetching"), ok \in BOOLEAN : SheetRead(t, ok)
    \/ \E t \in At("fetched"), o \in SendOutcomes : FetchedKnown(t, o)
    \/ \E t \in At("fetched") : FetchedNew(t)
    \/ \E t \in At("appending"), ok \in BOOLEAN : RowAppended(t, ok)
    \/ \E t \in At("appended"), o \in SendOutcomes : AppendReturned(t, o)
    \/ CacheExpires

SpecContacts == InitContacts /\ [][NextContacts]_vars

\* The positions at which a task is sure to take its next step: it has
\* been scheduled and awaits nothing ("start"), or the call it awaits ends
\* by itself: asyncio.wait_for around the email send (30 s), the revision
\* (20 s) and the extraction (25 s), the 30 s timeout of http_client for
\* the place and web searches.  The sheet read behind the contact lookup
\* and the connectors of the contact and calendar handlers are awaited in
\* the executor with no timeout: nothing ends the await if the call hangs.
TimedPositions == {"start", "sending", "revising", "extracting", "placing", "searching"}

\* a step of task t from one of these positions
TimedStep(t) ==
    /\ task[t].pc \in TimedPositions
    /\ Next
    /\ task'[t].pc # task[t].pc

\* Spec, with the steps that the event loop and the timeouts guarantee
FairSpec == Spec /\ \A t \in Tasks : WF_vars(TimedStep(t))

-----------------------------------------------------------------------------
(* Properties *)

\* the positions of a task that has been scheduled and has not returned
Running == {"start", "sending", "revising", "extracting", "lookup", "placing", "searching", "handling"}

\* task t takes a step
Stepped(t) == task[t].pc \in Running /\ task'[t].pc # task[t].pc

\* task t takes its first step: the date/time check, the transcription and
\* the draft check
FirstStep(t) == task[t].pc = "start" /\ task'[t].pc # "start"

\* task t returns in this step, after its one outbound send
Returns(t) == Stepped(t) /\ task'[t].pc = "done"

\* In its first step task t gets to the draft check (it is no date/time
\* query and, if audio, was transcribed) while its sender has a draft.
MeetsDraft(t) ==
    /\ FirstStep(t)
    /\ task[t].from_number \in DOMAIN pending_email_drafts
    /\ ~TextTable[task[t].body].datetime
    /\ task'[t].branch # "audio_fail"

\* C1 (as amended): when the dispatcher gets to the draft check with a
\* draft stored for the sender and a text that contains an approval phrase,
\* that step removes the draft and starts the one call of the email send
\* connector, with exactly the stored to/subject/body; when the call ends,
\* sent, refused or timed out, the task returns without another call and
\* without storing a draft.
C1_ApprovalSendsStoredDraftOnce ==
    [][\A t \in Tasks :
        LET s == task[t].from_number
        IN  /\ (MeetsDraft(t) /\ TextTable[task'[t].body].approval)
                => /\ pending_email_drafts' =
                        [y \in DOMAIN pending_email_drafts \ {s} |-> pending_email_drafts[y]]
                   /\ task'[t].email_calls = <<pending_email_drafts[s]>>
                   /\ task'[t].pc = "sending"
            /\ (task[t].pc = "sending" /\ Stepped(t))
                => /\ pending_email_drafts' = pending_email_drafts
                   /\ task'[t].email_calls = task[t].email_calls
                   /\ task'[t].pc = "done"]_vars

\* an approval of a stored draft has gone through, the send having timed out
C1_Witness ==
    \E t \in Tasks :
        /\ task[t].pc = "done"
        /\ task[t].saw_draft
        /\ TextTable[task[t].body].approval
        /\ task[t].email_calls = <<task[t].draft>>
        /\ task[t].out[1].text = <<"email timed out">>
        /\ task[t].from_number \notin DOMAIN pending_email_drafts

\* C1 as stated: with a draft stored for the sender, processing any text
\* message that contains an approval phrase calls the send connector once
\* with the stored fields and leaves no draft.
C1_AsStated ==
    [][\A t \in Tasks :
        LET s == task[t].from_number
        IN  (/\ FirstStep(t)
             /\ s \in DOMAIN pending_email_drafts
             /\ ~task[t].audio
             /\ TextTable[task[t].body].approval)
            => /\ task'[t].email_calls = <<pending_email_drafts[s]>>
               /\ s \notin DOMAIN pending_email_drafts']_vars

\* C2 (as amended): when the dispatcher gets to the draft check with a
\* draft stored for the sender and a text that contains a cancellation
\* phrase and no approval phrase, that step removes the draft and returns:
\* the email send connector is not called.
C2_CancellationDropsDraft ==
    [][\A t \in Tasks :
        LET s == task[t].from_number
        IN  (/\ MeetsDraft(t)
             /\ TextTable[task'[t].body].cancellation
             /\ ~TextTable[task'[t].body].approval)
            => /\ pending_email_drafts' =
                    [y \in DOMAIN pending_email_drafts \ {s} |-> pending_email_drafts[y]]
               /\ task'[t].email_calls = <<>>
               /\ task'[t].pc = "done"]_vars

\* a stored draft has been cancelled
C2_Witness ==
    \E t \in Tasks :
        /\ task[t].pc = "done"
        /\ task[t].saw_draft
        /\ TextTable[task[t].body].cancellation
        /\ ~TextTable[task[t].body].approval
        /\ task[t].email_calls = <<>>
        /\ task[t].out[1].text = <<"draft cancelled">>
        /\ task[t].from_number \notin DOMAIN pending_email_drafts

\* C2 as stated: with a draft stored for the sender, processing any text
\* message that contains a cancellation phrase and no approval phrase
\* leaves no draft.
C2_AsStated ==
    [][\A t \in Tasks :
        LET s == task[t].from_number
        IN  (/\ FirstStep(t)
             /\ s \in DOMAIN pending_email_drafts
             /\ ~task[t].audio
             /\ TextTable[task[t].body].cancellation
             /\ ~TextTable[task[t].body].approval)
            => /\ task'[t].email_calls = <<>>
               /\ s \notin DOMAIN pending_email_drafts']_vars

\* the revision call gave a record with the three fields
C3_Complete(rev) ==
    rev.kind = "dict" /\ {"to_email", "subject", "email_body"} \subseteq DOMAIN rev.dict

\* C3: with a draft stored and a text that is neither approval nor
\* cancellation, the dispatcher awaits the revision call without touching
\* the draft; when the call has given a record with to, subject and body,
\* one step replaces the whole stored draft by these three; when it has
\* given nothing, raised, timed out or given a record that lacks a field,
\* the step leaves the stored drafts exactly as they were.
C3_RevisionReplacesOrKeeps ==
    [][\A t \in Tasks :
        LET s == task[t].from_number
            rev == task'[t].revised[1]
        IN  /\ (/\ MeetsDraft(t)
                 /\ ~TextTable[task'[t].body].approval
                 /\ ~TextTable[task'[t].body].cancellation)
                => /\ pending_email_drafts' = pending_email_drafts
                   /\ task'[t].pc = "revising"
                   /\ task'[t].revise_calls = 1
            /\ (task[t].pc = "revising" /\ Stepped(t))
                => /\ task'[t].pc = "done"
                   /\ IF C3_Complete(rev)
                      THEN pending_email_drafts' =
                            [y \in DOMAIN pending_email_drafts \cup {s} |->
                                IF y = s
                                THEN [to_email |-> rev.dict["to_email"],
                                      subject |-> rev.dict["subject"],
                                      email_body |-> rev.dict["email_body"]]
                                ELSE pending_email_drafts[y]]
                      ELSE pending_email_drafts' = pending_email_drafts]_vars

\* a revision has given a record without subject and the stored draft is
\* the one the revision started from
C3_Witness ==
    \E t \in Tasks :
        /\ task[t].pc = "done"
        /\ task[t].revised # <<>>
        /\ task[t].revised[1].kind = "dict"
        /\ DOMAIN task[t].revised[1].dict = {"to_email", "email_body"}
        /\ task[t].from_number \in DOMAIN pending_email_drafts
        /\ pending_email_drafts[task[t].from_number] = task[t].draft

\* C4: a task that found a draft stored for its sender at the draft check
\* is resolved by the draft protocol: it approves, cancels or revises, it
\* never calls the intent extractor and it enters no intent handler.
C4_DraftPreemptsRouting ==
    \A t \in Tasks :
        task[t].saw_draft
        => /\ task[t].branch \in {"approve", "cancel", "revise"}
           /\ task[t].pc \in {"sending", "revising", "done"}
           /\ task[t].extract_calls = 0
           /\ task[t].handlers = <<>>
           /\ task[t].place_calls = <<>>

\* a text that reads as a search question was taken as a revision of the
\* stored draft, without extraction
C4_Witness ==
    \E t \in Tasks :
        /\ task[t].pc = "done"
        /\ task[t].saw_draft
        /\ TextTable[task[t].body].search
        /\ task[t].revise_calls = 1
        /\ task[t].extract_calls = 0

\* the webhook call of sender s made in this step
Calls(s) == hook'.kind # "none" /\ hook'.from = s

\* the one outbound send of a task that has returned
Sent(rec) == rec.out[Len(rec.out)]

\* C5 (as amended): when a reply has been stored for sender S since S's
\* last webhook call, S's next webhook call returns the reply stored last
\* (a later rate-limited send to S replaces an earlier one) and removes it;
\* and when S's last call returned a delayed response and no reply was
\* stored for S since, none exists at S's next call, which schedules the
\* message.
C5_ReplayReturnsLatestOnce ==
    [][\A s \in Senders :
        Calls(s)
        => /\ since_hook[s].last_stored # <<>>
                => /\ hook'.kind = "replayed"
                   /\ hook'.response = since_hook[s].last_stored[1]
                   /\ s \notin DOMAIN delayed_responses'
           /\ (since_hook[s].last = "replayed" /\ since_hook[s].last_stored = <<>>)
                => /\ s \notin DOMAIN delayed_responses
                   /\ hook'.kind = "scheduled"]_vars

\* a webhook call has returned the draft reply that a rate limit held back
C5_Witness ==
    /\ hook.kind = "replayed"
    /\ hook.response = <<"draft">>
    /\ hook.from \notin DOMAIN delayed_responses
    /\ since_hook[hook.from].last = "replayed"

\* C5 as stated: S's next webhook call returns the string that was stored
\* (the first one stored since S's last call), and at the call after a
\* replay no delayed response exists for S.
C5_AsStated ==
    [][\A s \in Senders :
        Calls(s)
        => /\ since_hook[s].first_stored # <<>>
                => /\ hook'.kind = "replayed"
                   /\ hook'.response = since_hook[s].first_stored[1]
           /\ since_hook[s].last = "replayed"
                => s \notin DOMAIN delayed_responses]_vars

\* C6: a webhook call of a sender for whom a delayed response is stored
\* returns it and does nothing else: no task is scheduled, no task in
\* flight moves (so no extractor or connector call is made), and the
\* pending drafts and place queries stay as they are.
C6_ReplayDoesNothingElse ==
    [][\A s \in Senders :
        (Calls(s) /\ s \in DOMAIN delayed_responses)
        => /\ hook'.kind = "replayed"
           /\ pending_email_drafts' = pending_email_drafts
           /\ pending_place_queries' = pending_place_queries
           /\ \A t \in Tasks : task[t].pc # "done" => task'[t] = task[t]]_vars

\* a delayed response has been replayed to a sender who holds a draft and
\* a place query
C6_Witness ==
    /\ hook.kind = "replayed"
    /\ hook.from \in DOMAIN pending_email_drafts
    /\ hook.from \in DOMAIN pending_place_queries

\* the outcomes that are provider rate-limit errors
C7_RateLimited == {"err_daily_limit", "err_63038"}

\* C7: delayed_responses gets an entry for a sender only in a step in which
\* an outbound send to that sender fails with a rate-limit error, and the
\* entry is the text that was being sent; a send that succeeds or fails
\* otherwise leaves the map as it was, and so does every step of a task
\* that sends nothing.
C7_StoredOnlyOnRateLimit ==
    [][/\ \A t \in Tasks :
            /\ Returns(t)
                => IF Sent(task'[t]).result \in C7_RateLimited
                   THEN delayed_responses' =
                        [y \in DOMAIN delayed_responses \cup {task[t].from_number} |->
                            IF y = task[t].from_number THEN Sent(task'[t]).text
                            ELSE delayed_responses[y]]
                   ELSE delayed_responses' = delayed_responses
            /\ (Stepped(t) /\ ~Returns(t)) => delayed_responses' = delayed_responses
       /\ \A s \in DOMAIN delayed_responses' :
            (s \notin DOMAIN delayed_responses \/ delayed_responses'[s] # delayed_responses[s])
            => \E t \in Tasks :
                /\ Returns(t)
                /\ task[t].from_number = s
                /\ Sent(task'[t]).result \in C7_RateLimited
                /\ Sent(task'[t]).text = delayed_responses'[s]]_vars

\* a send has failed with error 63038 and its text is stored for the sender
C7_Witness ==
    \E t \in Tasks :
        /\ task[t].pc = "done"
        /\ Sent(task[t]).result = "err_63038"
        /\ task[t].from_number \in DOMAIN delayed_responses
        /\ delayed_responses[task[t].from_number] = Sent(task[t]).text

\* C8 as stated: a message that is dispatched (the extractor gave its
\* answer) while a place query is pending for its sender makes exactly one
\* place search and leaves no pending place query.
C8_AsStated ==
    \A t \in Tasks :
        (task[t].pc = "done" /\ task[t].saw_place /\ task[t].handlers # <<>>)
        => /\ Len(task[t].place_calls) = 1
           /\ task[t].from_number \notin DOMAIN pending_place_queries

\* the locations that count as none
C9_NoLocationTexts == {"", "null", "none", "Null", "None", "NULL", "NONE"}

\* C9: when the extractor gives find_place with a place term and no
\* location (absent, empty, 'null' or 'none' in any case) and no place
\* query is pending for the sender, the handler stores the term as the
\* sender's pending place query, replies with the area prompt and returns
\* without a place search call.
C9_MissingLocationStoresTerm ==
    [][\A t \in Tasks :
        LET s == task[t].from_number
            d == task'[t].data
        IN  (/\ task[t].pc = "extracting"
             /\ Stepped(t)
             /\ d.intent = "find_place"
             /\ d.place_query # ""
             /\ d.place_location \in C9_NoLocationTexts
             /\ s \notin DOMAIN pending_place_queries)
            => /\ pending_place_queries' =
                    [y \in DOMAIN pending_place_queries \cup {s} |->
                        IF y = s THEN d.place_query ELSE pending_place_queries[y]]
               /\ Returns(t)
               /\ Sent(task'[t]).text = <<"what area">>
               /\ task'[t].place_calls = <<>>]_vars

\* a find_place with the location 'None' has stored its term and asked for
\* the area
C9_Witness ==
    \E t \in Tasks :
        /\ task[t].pc = "done"
        /\ ~task[t].saw_place
        /\ task[t].data.intent = "find_place"
        /\ task[t].data.place_location = "None"
        /\ task[t].from_number \in DOMAIN pending_place_queries
        /\ pending_place_queries[task[t].from_number] = task[t].data.place_query
        /\ Sent(task[t]).text = <<"what area">>
        /\ task[t].place_calls = <<>>

\* the kinds of pending state sender s holds
Held(s) ==
    {k \in {"delayed", "draft", "place"} :
        \/ k = "delayed" /\ s \in DOMAIN delayed_responses
        \/ k = "draft" /\ s \in DOMAIN pending_email_drafts
        \/ k = "place" /\ s \in DOMAIN pending_place_queries}

\* C10 (as amended): per sender there is at most one entry of each kind, a
\* delayed response being one reply text, a draft one record of exactly
\* to, subject and body, a place query one non-empty term; the kinds do not
\* exclude each other.
C10_OneEntryPerKind ==
    /\ DOMAIN delayed_responses \subseteq Senders
    /\ DOMAIN pending_email_drafts \subseteq Senders
    /\ DOMAIN pending_place_queries \subseteq Senders
    /\ \A s \in DOMAIN delayed_responses :
            delayed_responses[s] \in Seq(STRING)
    /\ \A s \in DOMAIN pending_email_drafts :
            DOMAIN pending_email_drafts[s] = {"to_email", "subject", "email_body"}
    /\ \A s \in DOMAIN pending_place_queries : pending_place_queries[s] # ""

\* a sender holds a delayed response, a draft and a place query at once
C10_Witness == \E s \in Senders : Held(s) = {"delayed", "draft", "place"}

\* C10 as stated: no sender holds two of the three kinds
C10_AsStated == \A s \in Senders : Cardinality(Held(s)) <= 1

\* C11 (as stated): the date/time pattern is tried on the text of the
\* message after the audio step, so a task that has got past its first step
\* with an audio message whose transcript is a date/time query has answered
\* it locally.  (The dispatcher tests the Body it was given before it
\* transcribes, and a transcript is never tested.)
C11_AsStated ==
    \A t \in Tasks :
        (/\ task[t].audio
         /\ task[t].pc \in {"sending", "revising", "extracting", "done"}
         /\ task[t].branch # "audio_fail"
         /\ TextTable[task[t].body].datetime)
            => task[t].branch = "datetime"

\* the report of a task that got to the intent dispatch: it awaited the
\* extraction and the await did not time out
AtDispatch(rec) ==
    /\ rec.pc = "done"
    /\ rec.branch = "extract"
    /\ rec.out # <<>>
    /\ rec.out[1].text # <<"processing timed out">>

Dispatches(t) == task[t].pc = "extracting" /\ task'[t].pc # "extracting"

\* C13 (as amended): when the extractor returns None (its own timeout or
\* exception) the dispatcher starts the fallback web search on the text if
\* the search heuristic matches it, and otherwise sends the capability
\* reply; when the dispatcher's own timeout around the extraction task
\* ends the await it does neither: it sends the timed-out reply and returns.
C13_ExtractorFailureFallsBack ==
    [][\A t \in Tasks :
        Dispatches(t) =>
            /\ task'[t].extracted = "none" =>
                IF TextTable[task[t].body].search
                THEN /\ task'[t].pc = "searching"
                     /\ task'[t].handlers = <<"fallback_search">>
                     /\ task'[t].out = <<>>
                ELSE /\ task'[t].pc = "done"
                     /\ task'[t].handlers = <<"default">>
                     /\ Len(task'[t].out) = 1
                     /\ task'[t].out[1].text = <<"capabilities">>
            /\ task'[t].extracted = "timeout" =>
                /\ task'[t].pc = "done"
                /\ task'[t].handlers = <<>>
                /\ Len(task'[t].out) = 1
                /\ task'[t].out[1].text = <<"processing timed out">>]_vars

\* the extractor failed on a text the heuristic takes for a search, and the
\* fallback search has answered
C13_Witness ==
    \E t \in Tasks :
        /\ task[t].pc = "done"
        /\ task[t].extracted = "none"
        /\ task[t].handlers = <<"fallback_search">>
        /\ Len(task[t].out) = 1
        /\ task[t].out[1].text[1] = "search"

\* C13 as stated: after the dispatcher's timeout, too, the task has run the
\* fallback search or sent the capability reply
C13_AsStated ==
    \A t \in Tasks :
        (task[t].pc = "done" /\ task[t].extracted = "timeout")
            => task[t].handlers \in {<<"fallback_search">>, <<"default">>}

\* C14 (as stated): when the extracted tag is none of the enumerated
\* values, the dispatch step does what it does for "other": it starts the
\* fallback web search if the search heuristic matches the text and sends
\* the capability reply otherwise.
C14_AsStated ==
    [][\A t \in Tasks :
        (/\ Dispatches(t)
         /\ task'[t].extracted = "data"
         /\ task'[t].data.intent \notin RoutedIntents \cup {"other"})
            => IF TextTable[task[t].body].search
               THEN task'[t].handlers = <<"fallback_search">>
               ELSE task'[t].handlers = <<"default">>]_vars

\* C15 (as stated): the conversation write does not hold up or change the
\* reply: no task ends with the timed-out apology because its write was
\* not back in time.
C15_AsStated ==
    \A t \in Tasks :
        (task[t].pc = "done" /\ task[t].late = "write")
            => \A i \in 1..Len(task[t].out) : task[t].out[i].text # <<"processing timed out">>

\* C16 (as stated): a user-id lookup or context retrieval of the extractor
\* that does not come back leaves the reply what the extractor's result
\* makes it: the await of the extraction does not end in the dispatcher's
\* timeout on its account.
C16_AsStated ==
    \A t \in Tasks :
        (task[t].pc = "done" /\ task[t].late = "context")
            => task[t].extracted # "timeout"

\* C17 (as stated): every task the webhook has scheduled eventually returns
\* after an outbound send to its sender.
C17_AsStated ==
    \A t \in Tasks :
        [](task[t].pc = "start" => <>(task[t].pc = "done" /\ task[t].out # <<>>))

\* task t returns from the send_email handler having stored the draft d
StoresExtractedDraft(t, s, d) ==
    /\ task[t].from_number = s
    /\ task[t].pc \in {"extracting", "lookup"}
    /\ task'[t].pc = "done"
    /\ task'[t].handlers = <<"send_email">>
    /\ task'[t].out[1].text = <<"draft">>
    /\ Truthy(d.to_email) /\ Truthy(d.subject) /\ Truthy(d.email_body)
    /\ d.subject = task'[t].data.subject
    /\ d.email_body = task'[t].data.email_body

\* C18 (as stated): a sender who has no draft gets one only in the step in
\* which the send_email handler, for a message of that sender, has a
\* destination, a subject and a body; and a draft goes away only in the
\* step in which an approval or a cancellation of that sender is processed.
C18_AsStated ==
    [][\A s \in Senders :
        /\ (s \notin DOMAIN pending_email_drafts /\ s \in DOMAIN pending_email_drafts')
            => \E t \in Tasks : StoresExtractedDraft(t, s, pending_email_drafts'[s])
        /\ (s \in DOMAIN pending_email_drafts /\ s \notin DOMAIN pending_email_drafts')
            => \E t \in Tasks :
                /\ task[t].from_number = s
                /\ FirstStep(t)
                /\ task'[t].branch \in {"approve", "cancel"}]_vars

\* the task slots the step takes from idle to scheduled
Scheduled == {t \in Tasks : task[t].pc = "idle" /\ task'[t].pc = "start"}

\* C19: a webhook call of a sender for whom no delayed response is stored
\* answers with the empty acknowledgement and schedules exactly one
\* background task, for that sender; in that step the task has done
\* nothing yet, no other task moves and no dict changes.
C19_WebhookAcknowledgesAndSchedulesOne ==
    [][(hook'.kind # "none" /\ hook'.from \notin DOMAIN delayed_responses) =>
        /\ hook'.kind = "scheduled"
        /\ hook'.response = <<>>
        /\ Cardinality(Scheduled) = 1
        /\ \A t \in Scheduled :
            /\ task'[t].from_number = hook'.from
            /\ task'[t].out = <<>>
            /\ task'[t].handlers = <<>>
            /\ task'[t].branch = ""
        /\ \A u \in Tasks \ Scheduled : task'[u] = Swept[u]
        /\ UNCHANGED <<pending_email_drafts, delayed_responses, pending_place_queries>>]_vars

\* the webhook has just acknowledged a message and its task is scheduled
C19_Witness ==
    /\ hook.kind = "scheduled"
    /\ hook.response = <<>>
    /\ Cardinality({t \in Tasks : task[t].pc = "start" /\ task[t].from_number = hook.from}) >= 1
    /\ hook.from \notin DOMAIN delayed_responses

\* C20: the first step of a task whose Body matches a date/time phrase
\* sends the local date/time reply and returns: the extractor has not been
\* called, no handler or draft branch has run, and pending_email_drafts and
\* pending_place_queries are what they were, draft pending or not.
C20_DateTimeAnsweredLocally ==
    [][\A t \in Tasks :
        (FirstStep(t) /\ TextTable[task[t].body].datetime) =>
            /\ task'[t].pc = "done"
            /\ task'[t].branch = "datetime"
            /\ task'[t].extract_calls = 0
            /\ task'[t].revise_calls = 0
            /\ task'[t].email_calls = <<>>
            /\ task'[t].handlers = <<>>
            /\ Len(task'[t].out) = 1
            /\ task'[t].out[1].text = DateTimeReply(task[t].body)
            /\ UNCHANGED <<pending_email_drafts, pending_place_queries>>]_vars

\* a date/time query has been answered while its sender has a draft pending
C20_Witness ==
    \E t \in Tasks :
        /\ task[t].pc = "done"
        /\ task[t].branch = "datetime"
        /\ TextTable[task[t].body].datetime
        /\ task[t].extract_calls = 0
        /\ task[t].from_number \in DOMAIN pending_email_drafts

\* In its first step task t, an audio message whose Body is no date/time
\* query, ends up without a text: transcribe_audio gave None or "".
Untranscribed(t) ==
    /\ FirstStep(t)
    /\ task[t].audio
    /\ ~TextTable[task[t].body].datetime
    /\ task'[t].body = ""

\* C21: when the audio of a message cannot be transcribed, the first step
\* of its task sends the fixed apology and returns: no extraction, no
\* branch of the draft protocol and no handler has run, and
\* pending_email_drafts and pending_place_queries are what they were.
C21_TranscriptionFailureApologises ==
    [][\A t \in Tasks :
        Untranscribed(t) =>
            /\ task'[t].pc = "done"
            /\ Len(task'[t].out) = 1
            /\ task'[t].out[1].text = <<"transcription failed">>
            /\ task'[t].extract_calls = 0
            /\ task'[t].revise_calls = 0
            /\ task'[t].email_calls = <<>>
            /\ task'[t].handlers = <<>>
            /\ task'[t].branch \notin {"approve", "cancel", "revise", "extract"}
            /\ UNCHANGED <<pending_email_drafts, pending_place_queries>>]_vars

\* an untranscribable voice note has been answered while its sender has a
\* draft pending
C21_Witness ==
    \E t \in Tasks :
        /\ task[t].pc = "done"
        /\ task[t].audio
        /\ task[t].body = ""
        /\ Len(task[t].out) = 1
        /\ task[t].out[1].text = <<"transcription failed">>
        /\ task[t].from_number \in DOMAIN pending_email_drafts

\* the text is very short, starts with a slash or contains an exclusion keyword
C22_Rejected(m) ==
    \/ Len(m) < 5
    \/ StartsWith(m, "/")
    \/ \E k \in ExclusionKeywords : IsSubstr(k, m)

\* the accept conditions that match the text, as a set of numbers: the
\* fourteen search patterns (1..14), the closing question mark (15), the
\* imperative first word (16)
C22_Accepting(m) ==
    LET hits == SearchPatternMatches(m)
    IN  {k \in DOMAIN hits : hits[k]}
            \cup (IF EndsWith(m, "?") THEN {15} ELSE {})
            \cup (IF FirstWord(m) \in ImperativeStarters THEN {16} ELSE {})

\* the stated policy for every text of the model, computed once
C22_Policy ==
    [b \in Texts |->
        LET m == Strip(Lower(b))
        IN  [rejected |-> C22_Rejected(m), accepting |-> C22_Accepting(m)]]

\* task t has the result of the extraction, and it is no actionable intent
C22_FallsBack(t) ==
    /\ task[t].pc = "extracting"
    /\ Stepped(t)
    /\ \/ task'[t].extracted = "none"
       \/ task'[t].extracted = "data" /\ task'[t].data.intent = "other"

\* C22: is_search_intent is false for a text that is very short, starts
\* with a slash or contains an exclusion keyword, whatever accept
\* conditions match it; for any other text it is true exactly when at least
\* one accept condition matches; and the dispatcher that falls back on it
\* runs the search for exactly the texts it is true for.
C22_SearchIntentPolicy ==
    [][\A t \in Tasks :
        LET b == task[t].body
            search == ~C22_Policy[b].rejected /\ C22_Policy[b].accepting # {}
        IN  /\ task[t].pc \in {"start", "extracting"} => TextTable[b].search = search
            /\ C22_FallsBack(t) => ((task'[t].handlers = <<"fallback_search">>) = search)]_vars

\* "Find best pizza in Downtown Dubai" starts with an imperative search
\* verb and matches search patterns, contains an exclusion keyword, and
\* has been given the capability reply, not the search
C22_Witness ==
    \E t \in Tasks :
        /\ task[t].pc = "done"
        /\ task[t].body = "Find best pizza in Downtown Dubai"
        /\ 16 \in C22_Policy[task[t].body].accepting
        /\ Cardinality(C22_Policy[task[t].body].accepting) > 1
        /\ C22_Policy[task[t].body].rejected
        /\ task[t].extracted = "none"
        /\ task[t].handlers = <<"default">>

\* the email send of task t is in flight, or has just timed out
C23_SendOutstanding(t) ==
    \/ task[t].pc = "sending"
    \/ /\ task[t].pc = "done"
       /\ task[t].branch = "approve"
       /\ task[t].out[1].text = <<"email timed out">>

\* C23 (as stated): while the email send of an approval is in flight, and
\* when it has timed out, no draft is stored for the sender of the approval.
C23_AsStated ==
    \A t \in Tasks :
        C23_SendOutstanding(t) => task[t].from_number \notin DOMAIN pending_email_drafts

\* In this step task t, which met no draft at the draft check and ran the
\* extraction, leaves handle_email_intent_optimized with the draft reply.
C24_CreatesDraft(t) ==
    /\ Returns(t)
    /\ task[t].pc \in {"extracting", "lookup"}
    /\ task'[t].handlers = <<"send_email">>
    /\ task'[t].out[1].text = <<"draft">>

\* C24: nothing orders the tasks of one sender.  A task that met no draft
\* and creates one stores it whether or not another task has stored a
\* draft for the sender since: after the step the sender has one draft,
\* the one of the task that wrote last, complete, and whatever was stored
\* before is lost; the other senders' drafts are untouched.
C24_LastDraftWins ==
    [][\A t \in Tasks :
        C24_CreatesDraft(t) =>
            LET s == task[t].from_number
                d == pending_email_drafts'[s]
            IN  /\ ~task'[t].saw_draft
                /\ task'[t].extract_calls = 1
                /\ DOMAIN pending_email_drafts' = DOMAIN pending_email_drafts \cup {s}
                /\ \A y \in DOMAIN pending_email_drafts \ {s} :
                        pending_email_drafts'[y] = pending_email_drafts[y]
                /\ d.subject = task'[t].data.subject
                /\ d.email_body = task'[t].data.email_body
                /\ d.to_email \in {task'[t].data.recipient_email, "sarah@x.com"}
                /\ task'[t].data.recipient_email # "" => d.to_email = task'[t].data.recipient_email
                /\ task'[t].replaced =
                        IF s \in DOMAIN pending_email_drafts THEN pending_email_drafts[s]
                        ELSE NoDraft]_vars

\* Two messages of one sender were processed side by side: the task that
\* has just returned met no draft at its draft check, ran the extraction
\* and stored its draft over a different draft, which the other task had
\* created in the meantime and which is lost.
C24_Witness ==
    \E t \in Tasks :
        /\ task[t].pc = "done"
        /\ ~task[t].saw_draft
        /\ task[t].extract_calls = 1
        /\ task[t].handlers = <<"send_email">>
        /\ task[t].out[1].text = <<"draft">>
        /\ task[t].replaced # NoDraft
        /\ task[t].replaced # pending_email_drafts[task[t].from_number]
        /\ pending_email_drafts[task[t].from_number] =
                Draft(task[t].data.recipient_email, task[t].data.subject, task[t].data.email_body)
        /\ \A u \in Tasks \ {t} : task[u].pc = "retired"

\* C25 (as stated): a revision call that returns when the sender's draft
\* has been approved or cancelled in the meantime leaves the sender
\* without a draft.
C25_AsStated ==
    [][\A t \in Tasks :
        (/\ task[t].pc = "revising"
         /\ Stepped(t)
         /\ task[t].from_number \notin DOMAIN pending_email_drafts)
            => task[t].from_number \notin DOMAIN pending_email_drafts']_vars

\* in this step task t issues a call of the email send connector
C26_IssuesSend(t) == task'[t].pc # "retired" /\ task'[t].email_calls # task[t].email_calls

\* C26: the draft check, the removal of the draft and the call of the send
\* connector are one step.  Every call of the connector is made by a task
\* that met the sender's draft with an approval text, carries that draft
\* and leaves the sender without it; a task that comes to the draft check
\* with an approval text when the draft is gone makes no call and goes on
\* to the extraction.  One stored draft is therefore sent at most once.
C26_OneSendPerDraft ==
    [][\A t \in Tasks :
        LET s == task[t].from_number
        IN  /\ C26_IssuesSend(t) =>
                /\ FirstStep(t)
                /\ s \in DOMAIN pending_email_drafts
                /\ s \notin DOMAIN pending_email_drafts'
                /\ task'[t].email_calls = <<pending_email_drafts[s]>>
                /\ \A u \in Tasks \ {t} : ~C26_IssuesSend(u)
            /\ (/\ FirstStep(t)
                /\ s \notin DOMAIN pending_email_drafts
                /\ TextTable[task'[t].body].approval
                /\ task'[t].branch \notin {"datetime", "audio_fail"})
                    => /\ task'[t].pc = "extracting"
                       /\ task'[t].email_calls = <<>>
                       /\ s \notin DOMAIN pending_email_drafts']_vars

\* Two approvals of one sender side by side: the send of the first is in
\* flight, the second has found no draft and awaits the extraction.
C26_Witness ==
    \E t, u \in Tasks :
        /\ t # u
        /\ task[t].from_number = task[u].from_number
        /\ task[t].pc = "sending"
        /\ Len(task[t].email_calls) = 1
        /\ task[u].pc = "extracting"
        /\ TextTable[task[u].body].approval
        /\ ~task[u].saw_draft
        /\ task[u].email_calls = <<>>
        /\ task[u].from_number \notin DOMAIN pending_email_drafts

\* the branch the stated rule gives every text of the model, by substring
\* containment on the lowered text, computed once
C27_Rule ==
    [b \in Texts |->
        IF \E p \in ApprovalPhrases : IsSubstr(p, Lower(b)) THEN "approve"
        ELSE IF \E p \in CancelPhrases : IsSubstr(p, Lower(b)) THEN "cancel"
        ELSE "revise"]

\* C27 (as amended): a message that gets to the draft check (its Body is
\* no date/time query and, if audio, it was transcribed) while its sender
\* has a draft takes exactly one branch, the one the rule gives its text:
\* approval (the send is issued), else cancellation (the draft is dropped,
\* the task returns), else revision (the revision call is awaited).
C27_OneBranchBySubstring ==
    [][\A t \in Tasks :
        MeetsDraft(t) =>
            LET branch == C27_Rule[task'[t].body]
            IN  /\ task'[t].branch = branch
                /\ (branch = "approve") = (task'[t].pc = "sending")
                /\ (branch = "approve") = (Len(task'[t].email_calls) = 1)
                /\ (branch = "cancel") = (task'[t].pc = "done")
                /\ (branch = "cancel") =
                        (task'[t].from_number \notin DOMAIN pending_email_drafts'
                            /\ task'[t].email_calls = <<>>)
                /\ (branch = "revise") = (task'[t].pc = "revising")
                /\ (branch = "revise") = (task'[t].revise_calls = 1)
                /\ task'[t].extract_calls = 0]_vars

\* "no, send it" holds a cancellation phrase and an approval phrase: the
\* draft was taken for approved and its send is in flight
C27_Witness ==
    \E t \in Tasks :
        /\ task[t].pc = "sending"
        /\ task[t].body = "no, send it"
        /\ TextTable[task[t].body].cancellation
        /\ TextTable[task[t].body].approval
        /\ task[t].saw_draft
        /\ task[t].branch = "approve"
        /\ Len(task[t].email_calls) = 1

\* C27 as stated: with a draft stored for the sender, every text message
\* takes one of the three branches of the draft protocol.
C27_AsStated ==
    [][\A t \in Tasks :
        (/\ FirstStep(t)
         /\ ~task[t].audio
         /\ task[t].from_number \in DOMAIN pending_email_drafts)
            => /\ task'[t].branch \in {"approve", "cancel", "revise"}
               /\ task'[t].branch = C27_Rule[task[t].body]]_vars

\* what dict m holds for key k: <<value>>, or <<>> when k is not a key
C28_Entry(m, k) == IF k \in DOMAIN m THEN <<m[k]>> ELSE <<>>

\* the senders on whose behalf the step is made: the caller of the webhook,
\* or the sender of the message whose task takes the step
C28_Acting ==
    IF hook'.kind # "none" THEN {hook'.from}
    ELSE {task[t].from_number : t \in {u \in Tasks : Stepped(u)}}

\* C28: every step is made for one sender, and it leaves the delayed
\* response, the draft and the place query of every other sender as they
\* were: not created, not changed, not removed.
C28_OtherSendersUntouched ==
    [][/\ Cardinality(C28_Acting) = 1
       /\ \A b \in Senders \ C28_Acting :
            /\ C28_Entry(delayed_responses', b) = C28_Entry(delayed_responses, b)
            /\ C28_Entry(pending_email_drafts', b) = C28_Entry(pending_email_drafts, b)
            /\ C28_Entry(pending_place_queries', b) = C28_Entry(pending_place_queries, b)]_vars

\* The webhook has replayed and removed the delayed response of one sender
\* while a delayed response is stored for the other, which is still there.
C28_Witness ==
    \E a, b \in Senders :
        /\ a # b
        /\ hook.kind = "replayed"
        /\ hook.from = a
        /\ a \notin DOMAIN delayed_responses
        /\ b \in DOMAIN delayed_responses

\* C29 (as stated): every stored draft has a destination, a subject and a
\* body, none of them empty.
C29_AsStated ==
    \A s \in DOMAIN pending_email_drafts :
        /\ Truthy(pending_email_drafts[s].to_email)
        /\ Truthy(pending_email_drafts[s].subject)
        /\ Truthy(pending_email_drafts[s].email_body)

\* C30 (as stated): no two rows of the contact sheet have the same full
\* name, trimmed and without regard to case.
C30_AsStated ==
    \A i, j \in DOMAIN sheet_rows :
        i # j => ContactKey[sheet_rows[i]] # ContactKey[sheet_rows[j]]

====
